---- MODULE Spec2Model ----
(***************************************************************************)
(* The clubs directory: the tRPC clubs router (createClub, updateClub,     *)
(* deleteClub, getAllClubs, getClub) over the Prisma data access layer.    *)
(* One action per procedure call; a call runs its zod input parser, then   *)
(* its resolver, which reads the user table and writes the club table.     *)
(***************************************************************************)
EXTENDS Integers, Sequences, FiniteSets, TLC

VARIABLES
    prisma,     \* globalThis.prisma: the tables of the store, by table name
    nextId,     \* the next identifier uuidv4() hands out
    call,       \* the last procedure call: its name, its input, its store faults
    res,        \* what that call gave its caller: an envelope or a tRPC error
    before,     \* the club table as it was when that call started
    returned,   \* id -> the club createClub returned, until that club is mutated
    storeLog,   \* the calls that call issued to the store, in order
    deleted,    \* the identifiers deleteClub answered success for
    reqs,       \* concurrent updateClub requests: input, position, answer
    applied,    \* the requests whose store update was applied, in order
    form,       \* the page open in the browser: its React state
    global      \* globalThis.prisma and the Prisma instances constructed

vars == <<prisma, nextId, call, res, before, returned, storeLog, deleted,
          reqs, applied, form, global>>

\* How many identifiers uuidv4() hands out before the model stops creating.
MaxClubs == 2

\* How many updateClub requests are in flight together.
MaxRequests == 2

\* How many times the DAL module is evaluated in one process at most.
MaxEvals == 3

(***************************************************************************)
(* Values                                                                  *)
(***************************************************************************)
\* JavaScript null
NULL == [null |-> TRUE]

\* lib/config/club.config
config ==
    [club |->
        [default |-> [name |-> "Club",
                      description |-> "Empty club description",
                      image |-> "/images/default-club-image.png",
                      linktree |-> ""],
         max |-> [name |-> 50, description |-> 100, linktree |-> 100],
         min |-> [name |-> 1, description |-> 1, linktree |-> 1]]]

\* Permission.ADMIN
ADMIN == "ADMIN"

\* Sample strings at and around the configured length bounds.
Name1 == "C"
Name50 == "NNNNNNNNNNNNNNNNNNNNNNNNNNNNNNNNNNNNNNNNNNNNNNNNNN"
Name51 == "NNNNNNNNNNNNNNNNNNNNNNNNNNNNNNNNNNNNNNNNNNNNNNNNNNN"
Desc1 == "d"
Desc100 == "DDDDDDDDDDDDDDDDDDDDDDDDDDDDDDDDDDDDDDDDDDDDDDDDDDDDDDDDDDDDDDDDDDDDDDDDDDDDDDDDDDDDDDDDDDDDDDDDDDDD"
Desc101 == "DDDDDDDDDDDDDDDDDDDDDDDDDDDDDDDDDDDDDDDDDDDDDDDDDDDDDDDDDDDDDDDDDDDDDDDDDDDDDDDDDDDDDDDDDDDDDDDDDDDDD"
Link1 == "l"
Link100 == "LLLLLLLLLLLLLLLLLLLLLLLLLLLLLLLLLLLLLLLLLLLLLLLLLLLLLLLLLLLLLLLLLLLLLLLLLLLLLLLLLLLLLLLLLLLLLLLLLLLL"
Link101 == "LLLLLLLLLLLLLLLLLLLLLLLLLLLLLLLLLLLLLLLLLLLLLLLLLLLLLLLLLLLLLLLLLLLLLLLLLLLLLLLLLLLLLLLLLLLLLLLLLLLLL"
Image1 == "/images/chess.png"

\* The rows of the user table (owned by the identity provider).
UserRows ==
    { [id |-> "u1", email |-> "a@socis.ca", secret |-> "tokA",
       permissions |-> {ADMIN, "DEFAULT"}, password |-> "pwA"],
      [id |-> "u2", email |-> "u@socis.ca", secret |-> "tokU",
       permissions |-> {"DEFAULT"}, password |-> "pwU"] }

\* Access tokens a caller may send: an admin's, a plain user's, nobody's.
Tokens == {"tokA", "tokU", "tokX"}

\* Club identifiers a caller may name (one more than uuidv4() ever hands out).
Ids == 1..(MaxClubs + 1)

\* Who calls a mutation, and which tables' store access fails meanwhile:
\* every token on a healthy store, and the admin's token while the user
\* table or the club table fails (the other tokens never get past the
\* lookup, so a fault changes nothing for them).
Callers ==
    {[accessToken |-> t, faulty |-> {}] : t \in Tokens}
    \cup {[accessToken |-> "tokA", faulty |-> {table}] : table \in {"user", "club"}}

(***************************************************************************)
(* Data access layer (lib/prisma.ts)                                       *)
(***************************************************************************)
\* One call issued to the store: the table and the client method.
StoreCall(table, op) == <<[table |-> table, op |-> op]>>

\* What a store call gives back: its return value, the tables after it, and
\* the calls that were issued to the store.
Done(ret, db, log) == [thrown |-> FALSE, ret |-> ret, db |-> db, log |-> log]

\* A store call that throws: nothing is returned and the tables stay.
Thrown(log) == [thrown |-> TRUE, ret |-> NULL, db |-> prisma, log |-> log]

\* Prisma.getTable: globalThis.prisma[table]
getTable(table) == prisma[table]

\* The store fails while serving the table.
Throws(table, faulty) == table \in faulty

\* A row satisfies the `where` of the options (every listed column equal).
Matches(row, opts) ==
    "where" \in DOMAIN opts =>
        \A k \in DOMAIN opts.where : k \in DOMAIN row /\ row[k] = opts.where[k]

\* Project that returns every column the `select` lists, true or false.
Project_IgnoresFalse(row, opts) ==
    IF "select" \in DOMAIN opts
    THEN [k \in {f \in DOMAIN row : f \in DOMAIN opts.select} |-> row[k]]
    ELSE row

\* The `select` of the options: only the columns marked true leave the store.
Project(row, opts) ==
    IF "select" \in DOMAIN opts
    THEN [k \in {f \in DOMAIN row : f \in DOMAIN opts.select /\ opts.select[f]} |-> row[k]]
    ELSE row

\* Patch that leaves the image of the row as it was.
Patch_KeepsImage(row, data) ==
    [k \in DOMAIN row |-> IF k \in DOMAIN data /\ k # "image" THEN data[k] ELSE row[k]]

\* A row after `data` is written over it: listed columns replaced, others kept.
Patch(row, data) ==
    [k \in DOMAIN row |-> IF k \in DOMAIN data THEN data[k] ELSE row[k]]

\* The tables with one of them replaced.
WithTable(table, rows) == [prisma EXCEPT ![table] = rows]

\* tableRef.findMany(opts): a TypeError when getTable gave undefined, an
\* error when the store fails, else the matching rows.
tableRef_findMany(table, opts, faulty) ==
    IF table \notin DOMAIN prisma THEN Thrown(<<>>)
    ELSE IF Throws(table, faulty) THEN Thrown(StoreCall(table, "findMany"))
    ELSE Done({Project(row, opts) : row \in {r \in getTable(table) : Matches(r, opts)}},
              prisma, StoreCall(table, "findMany"))

\* tableRef.findFirst(opts): the first matching row, null when there is none.
tableRef_findFirst(table, opts, faulty) ==
    IF table \notin DOMAIN prisma THEN Thrown(<<>>)
    ELSE IF Throws(table, faulty) THEN Thrown(StoreCall(table, "findFirst"))
    ELSE LET found == {r \in getTable(table) : Matches(r, opts)} IN
         Done(IF found = {} THEN NULL ELSE Project(CHOOSE r \in found : TRUE, opts),
              prisma, StoreCall(table, "findFirst"))

\* tableRef.create(opts): inserts opts.data; throws on a taken primary key.
tableRef_create(table, opts, faulty) ==
    IF table \notin DOMAIN prisma THEN Thrown(<<>>)
    ELSE IF Throws(table, faulty) THEN Thrown(StoreCall(table, "create"))
    ELSE IF \E r \in getTable(table) : r.id = opts.data.id
    THEN Thrown(StoreCall(table, "create"))
    ELSE Done(opts.data, WithTable(table, getTable(table) \cup {opts.data}),
              StoreCall(table, "create"))

\* tableRef_update that inserts the row when none is located (an upsert).
tableRef_update_Upsert(table, data, faulty) ==
    IF table \notin DOMAIN prisma THEN Thrown(<<>>)
    ELSE IF Throws(table, faulty) THEN Thrown(StoreCall(table, "update"))
    ELSE LET found == {r \in getTable(table) : Matches(r, data)} IN
         IF found = {}
         THEN LET new == [id |-> data.where.id,
                          name |-> data.data.name,
                          description |-> data.data.description,
                          image |-> data.data.image,
                          linktree |-> ""]
              IN Done(new, WithTable(table, getTable(table) \cup {new}),
                      StoreCall(table, "update"))
         ELSE LET old == CHOOSE r \in found : TRUE
                  new == Patch(old, data.data)
              IN Done(new, WithTable(table, (getTable(table) \ {old}) \cup {new}),
                      StoreCall(table, "update"))

\* tableRef.update(data): patches the row located by data.where; throws
\* when no row is located.
tableRef_update(table, data, faulty) ==
    IF table \notin DOMAIN prisma THEN Thrown(<<>>)
    ELSE IF Throws(table, faulty) THEN Thrown(StoreCall(table, "update"))
    ELSE LET found == {r \in getTable(table) : Matches(r, data)} IN
         IF found = {} THEN Thrown(StoreCall(table, "update"))
         ELSE LET old == CHOOSE r \in found : TRUE
                  new == Patch(old, data.data)
              IN Done(new, WithTable(table, (getTable(table) \ {old}) \cup {new}),
                      StoreCall(table, "update"))

\* tableRef.delete(opts): removes the row located by opts.where and returns
\* it; throws when no row is located.
tableRef_delete(table, opts, faulty) ==
    IF table \notin DOMAIN prisma THEN Thrown(<<>>)
    ELSE IF Throws(table, faulty) THEN Thrown(StoreCall(table, "delete"))
    ELSE LET found == {r \in getTable(table) : Matches(r, opts)} IN
         IF found = {} THEN Thrown(StoreCall(table, "delete"))
         ELSE LET old == CHOOSE r \in found : TRUE
              IN Done(old, WithTable(table, getTable(table) \ {old}),
                      StoreCall(table, "delete"))

\* Prisma.findMany: the matching rows, [] when the call throws.
findMany(table, opts, faulty) ==
    LET r == tableRef_findMany(table, opts, faulty) IN
    IF r.thrown THEN Done({}, prisma, r.log) ELSE r

\* findOne with the try/catch forgotten.
findOne_NoCatch(table, opts, faulty) == tableRef_findFirst(table, opts, faulty)

\* Prisma.findOne: the first matching row, null when none or the call throws.
findOne(table, opts, faulty) ==
    LET r == tableRef_findFirst(table, opts, faulty) IN
    IF r.thrown THEN Done(NULL, prisma, r.log) ELSE r

\* Prisma.create: the created row, null when the call throws.
create(table, opts, faulty) ==
    LET r == tableRef_create(table, opts, faulty) IN
    IF r.thrown THEN Done(NULL, prisma, r.log) ELSE r

\* Prisma.update: the updated row, null when the call throws.
update(table, data, faulty) ==
    LET r == tableRef_update(table, data, faulty) IN
    IF r.thrown THEN Done(NULL, prisma, r.log) ELSE r

\* Prisma.delete: the deleted row, null when the call throws.
delete(table, opts, faulty) ==
    LET r == tableRef_delete(table, opts, faulty) IN
    IF r.thrown THEN Done(NULL, prisma, r.log) ELSE r

\* Prisma.getAllUsersSecure
getAllUsersSecure(faulty) ==
    findMany("user",
             [select |-> [id |-> TRUE, name |-> TRUE, email |-> TRUE, image |-> TRUE,
                          permissions |-> TRUE, roles |-> TRUE,
                          password |-> FALSE, secret |-> FALSE]],
             faulty)

\* Prisma.getUserByEmailNoPassword
getUserByEmailNoPassword(email, faulty) ==
    findOne("user",
            [where |-> [email |-> email],
             select |-> [id |-> TRUE, name |-> TRUE, email |-> TRUE, image |-> TRUE,
                         secret |-> TRUE, permissions |-> TRUE, roles |-> TRUE,
                         password |-> FALSE]],
            faulty)

\* Prisma.getUserBySecretNoPassword
getUserBySecretNoPassword(secret, faulty) ==
    findOne("user",
            [where |-> [secret |-> secret],
             select |-> [id |-> TRUE, name |-> TRUE, email |-> TRUE, image |-> TRUE,
                         secret |-> TRUE, permissions |-> TRUE, roles |-> TRUE,
                         password |-> FALSE]],
            faulty)

\* Prisma.getAllClubs reading the wrong table.
Prisma_getAllClubs_WrongTable(faulty) == findMany("user", <<>>, faulty)

\* Prisma.getAllClubs
Prisma_getAllClubs(faulty) == findMany("club", <<>>, faulty)

\* getClubById with the `where` forgotten.
getClubById_NoWhere(clubId, faulty) == findOne("club", <<>>, faulty)

\* Prisma.getClubById
getClubById(clubId, faulty) == findOne("club", [where |-> [id |-> clubId]], faulty)

\* deleteClubById that only reads the row (a soft delete).
deleteClubById_FindOnly(clubId, faulty) ==
    findOne("club", [where |-> [id |-> clubId]], faulty)

\* Prisma.deleteClubById
deleteClubById(clubId, faulty) == delete("club", [where |-> [id |-> clubId]], faulty)

\* Prisma.createClub
Prisma_createClub(club, faulty) == create("club", [data |-> club], faulty)

\* updateClubById with the `where` forgotten.
updateClubById_NoWhere(clubId, data, faulty) ==
    update("club", [data |-> data], faulty)

\* Prisma.updateClubById
updateClubById(clubId, data, faulty) ==
    update("club", [where |-> [id |-> clubId], data |-> data], faulty)

\* lib/utils/permissions hasPermissions: the user holds every listed permission.
hasPermissions(user, permissions) == permissions \subseteq user.permissions

(***************************************************************************)
(* Input schemas of the clubs router (zod)                                 *)
(***************************************************************************)
\* zString with the .max(hi) forgotten.
zString_NoMax(obj, key, lo, hi) ==
    key \in DOMAIN obj /\ Len(obj[key]) >= lo

\* z.string().max(hi).min(lo): the key is present and its length is in range.
zString(obj, key, lo, hi) ==
    key \in DOMAIN obj /\ Len(obj[key]) >= lo /\ Len(obj[key]) <= hi

\* z.string().max(hi).min(lo).optional(): absent, or in range.
zOptional(obj, key, lo, hi) ==
    key \in DOMAIN obj => (Len(obj[key]) >= lo /\ Len(obj[key]) <= hi)

\* z.object(...) keeps the declared keys of a parsed object and drops the rest.
Strip(obj, keys) == [k \in DOMAIN obj \cap keys |-> obj[k]]

\* createClub_accepts with the .max(config.club.max.name) forgotten.
createClub_accepts_NoNameMax(input) ==
    /\ "name" \in DOMAIN input.club
    /\ Len(input.club.name) >= config.club.min.name
    /\ zString(input.club, "description",
               config.club.min.description, config.club.max.description)
    /\ zOptional(input.club, "linktree",
                 config.club.min.linktree, config.club.max.linktree)

\* createClub .input(...): does the input parse
createClub_accepts(input) ==
    /\ zString(input.club, "name", config.club.min.name, config.club.max.name)
    /\ zString(input.club, "description",
               config.club.min.description, config.club.max.description)
    /\ zOptional(input.club, "linktree",
                 config.club.min.linktree, config.club.max.linktree)

\* createClub .input(...): the parsed input
createClub_parse(input) ==
    [accessToken |-> input.accessToken,
     club |-> Strip(input.club, {"name", "description", "linktree", "image"})]

\* deleteClub .input(...): does the input parse
deleteClub_accepts(input) == "id" \in DOMAIN input

\* updateClub .input(...): does the input parse
updateClub_accepts(input) ==
    /\ "id" \in DOMAIN input.club
    /\ zString(input.club, "name", config.club.min.name, config.club.max.name)
    /\ zString(input.club, "description",
               config.club.min.description, config.club.max.description)

\* updateClub .input(...): the parsed input
updateClub_parse(input) ==
    [accessToken |-> input.accessToken,
     club |-> Strip(input.club, {"id", "name", "description", "image"})]

\* getClub .input(...): does the input parse
getClub_accepts(input) == "id" \in DOMAIN input

(***************************************************************************)
(* Resolvers of the clubs router                                           *)
(***************************************************************************)
\* The result envelope { success, club }
Envelope(success, club) == [success |-> success, club |-> club]

\* What tRPC answers when the input does not parse: the call raises.
BAD_REQUEST == [error |-> "BAD_REQUEST"]

\* What a resolver leaves behind: its answer, the tables after it, how many
\* identifiers it drew from uuidv4(), and the calls it issued to the store.
Out(envelope, db, ids, log) == [res |-> envelope, db |-> db, ids |-> ids, log |-> log]

\* uuidv4(): an identifier never handed out before
uuidv4 == nextId

\* JavaScript `obj.key || fallback`: a missing or empty string gives fallback.
OrElse(obj, key, fallback) ==
    IF key \in DOMAIN obj /\ obj[key] # "" THEN obj[key] ELSE fallback

\* The gate letting a call through when the lookup gave no user.
Authorize_FailOpen(accessToken, faulty) ==
    LET lookup == getUserBySecretNoPassword(accessToken, faulty) IN
    [passed |-> IF lookup.ret = NULL THEN TRUE ELSE hasPermissions(lookup.ret, {ADMIN}),
     log |-> lookup.log]

\* The gate every mutation opens with: look the user up by the secret, and
\* refuse when there is none or it lacks ADMIN.
Authorize(accessToken, faulty) ==
    LET lookup == getUserBySecretNoPassword(accessToken, faulty) IN
    [passed |-> IF lookup.ret = NULL THEN FALSE ELSE hasPermissions(lookup.ret, {ADMIN}),
     log |-> lookup.log]

\* The gate with the permission check forgotten.
Authorize_NoAdminCheck(accessToken, faulty) ==
    LET lookup == getUserBySecretNoPassword(accessToken, faulty) IN
    [passed |-> lookup.ret # NULL, log |-> lookup.log]

\* A resolver: refuse unless the gate passed, else do the write.
Gated(gate, write) ==
    IF ~gate.passed THEN Out(Envelope(FALSE, NULL), prisma, 0, gate.log)
    ELSE Out(write.res, write.db, write.ids, gate.log \o write.log)

\* The data createClub inserts for a parsed club.
NewClub(club, defaultImage) ==
    [id |-> uuidv4,
     name |-> club.name,
     description |-> club.description,
     image |-> OrElse(club, "image", defaultImage),
     linktree |-> OrElse(club, "linktree", config.club.default.linktree)]

\* createClub_write that tries the insert again when it gave null.
createClub_write_Retry(input, faulty) ==
    LET w == Prisma_createClub(NewClub(input.club, config.club.default.image), faulty)
    IN IF w.ret = NULL
       THEN Out(Envelope(FALSE, NULL), w.db, 1, w.log \o w.log)
       ELSE Out(Envelope(TRUE, w.ret), w.db, 1, w.log)

\* createClub .mutation(...), past the gate: insert the club, answer with it.
createClub_write(input, faulty) ==
    LET w == Prisma_createClub(NewClub(input.club, config.club.default.image), faulty)
    IN IF w.ret = NULL THEN Out(Envelope(FALSE, NULL), w.db, 1, w.log)
       ELSE Out(Envelope(TRUE, w.ret), w.db, 1, w.log)

\* createClub_mutation with the linktree default given to a missing image.
createClub_mutation_WrongDefault(input, faulty) ==
    Gated(Authorize(input.accessToken, faulty),
          LET w == Prisma_createClub(NewClub(input.club, config.club.default.linktree),
                                     faulty)
          IN IF w.ret = NULL THEN Out(Envelope(FALSE, NULL), w.db, 1, w.log)
             ELSE Out(Envelope(TRUE, w.ret), w.db, 1, w.log))

\* createClub_mutation with the permission check forgotten.
createClub_mutation_NoAdminCheck(input, faulty) ==
    Gated(Authorize_NoAdminCheck(input.accessToken, faulty),
          createClub_write(input, faulty))

\* createClub .mutation(...)
createClub_mutation(input, faulty) ==
    Gated(Authorize(input.accessToken, faulty), createClub_write(input, faulty))

\* deleteClub_write with the `if (!club)` branch forgotten.
deleteClub_write_NoNullCheck(input, faulty) ==
    LET w == deleteClubById(input.id, faulty)
    IN Out(Envelope(TRUE, w.ret), w.db, 0, w.log)

\* deleteClub .mutation(...), past the gate: delete the club, answer with it.
deleteClub_write(input, faulty) ==
    LET w == deleteClubById(input.id, faulty)
    IN IF w.ret = NULL THEN Out(Envelope(FALSE, NULL), w.db, 0, w.log)
       ELSE Out(Envelope(TRUE, w.ret), w.db, 0, w.log)

\* deleteClub_mutation with the permission check forgotten.
deleteClub_mutation_NoAdminCheck(input, faulty) ==
    Gated(Authorize_NoAdminCheck(input.accessToken, faulty),
          deleteClub_write(input, faulty))

\* deleteClub .mutation(...)
deleteClub_mutation(input, faulty) ==
    Gated(Authorize(input.accessToken, faulty), deleteClub_write(input, faulty))

\* updateClub .mutation(...), past the gate: patch the club, answer with it.
updateClub_write(input, faulty) ==
    LET club == input.club
        w == updateClubById(
                 club.id,
                 [name |-> club.name,
                  description |-> club.description,
                  image |-> OrElse(club, "image", config.club.default.image)],
                 faulty)
    IN IF w.ret = NULL THEN Out(Envelope(FALSE, NULL), w.db, 0, w.log)
       ELSE Out(Envelope(TRUE, w.ret), w.db, 0, w.log)

\* updateClub_mutation with the permission check forgotten.
updateClub_mutation_NoAdminCheck(input, faulty) ==
    Gated(Authorize_NoAdminCheck(input.accessToken, faulty),
          updateClub_write(input, faulty))

\* updateClub .mutation(...)
updateClub_mutation(input, faulty) ==
    Gated(Authorize(input.accessToken, faulty), updateClub_write(input, faulty))

\* getAllClubs .mutation(...)
getAllClubs_mutation(faulty) ==
    LET r == Prisma_getAllClubs(faulty) IN
    Out([success |-> TRUE, clubs |-> r.ret], prisma, 0, r.log)

\* getClub_mutation behind the gate of the mutations.
getClub_mutation_Gated(input, faulty) ==
    LET r == getClubById(input.id, faulty) IN
    Gated(Authorize("", faulty),
          IF r.ret = NULL THEN Out(Envelope(FALSE, NULL), prisma, 0, r.log)
          ELSE Out(Envelope(TRUE, r.ret), prisma, 0, r.log))

\* getClub_mutation with the `if (!club)` branch forgotten.
getClub_mutation_NoNullCheck(input, faulty) ==
    LET r == getClubById(input.id, faulty) IN
    Out(Envelope(TRUE, r.ret), prisma, 0, r.log)

\* getClub .mutation(...)
getClub_mutation(input, faulty) ==
    LET r == getClubById(input.id, faulty) IN
    IF r.ret = NULL THEN Out(Envelope(FALSE, NULL), prisma, 0, r.log)
    ELSE Out(Envelope(TRUE, r.ret), prisma, 0, r.log)

(***************************************************************************)
(* Procedures of the clubs router: the input parser, then the resolver     *)
(***************************************************************************)
\* clubsRouter.createClub
createClub_procedure(input, faulty) ==
    IF ~createClub_accepts(input) THEN Out(BAD_REQUEST, prisma, 0, <<>>)
    ELSE createClub_mutation(createClub_parse(input), faulty)

\* clubsRouter.deleteClub
deleteClub_procedure(input, faulty) ==
    IF ~deleteClub_accepts(input) THEN Out(BAD_REQUEST, prisma, 0, <<>>)
    ELSE deleteClub_mutation(input, faulty)

\* clubsRouter.updateClub
updateClub_procedure(input, faulty) ==
    IF ~updateClub_accepts(input) THEN Out(BAD_REQUEST, prisma, 0, <<>>)
    ELSE updateClub_mutation(updateClub_parse(input), faulty)

\* clubsRouter.getAllClubs
getAllClubs_procedure(faulty) == getAllClubs_mutation(faulty)

\* clubsRouter.getClub
getClub_procedure(input, faulty) ==
    IF ~getClub_accepts(input) THEN Out(BAD_REQUEST, prisma, 0, <<>>)
    ELSE getClub_mutation(input, faulty)

(***************************************************************************)
(* Inputs the callers send                                                 *)
(***************************************************************************)
\* An object with one key set, or one key removed.
With(obj, key, value) ==
    [k \in DOMAIN obj \cup {key} |-> IF k = key THEN value ELSE obj[k]]
Without(obj, key) == [k \in DOMAIN obj \ {key} |-> obj[k]]

\* Two schema-valid clubs: the smallest one, and one with every field at its
\* upper bound.
Small == [name |-> Name1, description |-> Desc1]
Large == [name |-> Name50, description |-> Desc100, image |-> Image1]

\* Clubs with one field of Small missing, empty, or too long.
BadClubs ==
    { Without(Small, "name"), With(Small, "name", ""), With(Small, "name", Name51),
      Without(Small, "description"), With(Small, "description", ""),
      With(Small, "description", Desc101) }

\* Clubs that differ from Small in the optional fields only.
OptionClubs ==
    { With(Small, "linktree", ""), With(Small, "linktree", Link1),
      With(Small, "linktree", Link101), With(Small, "image", "") }

\* The club of the creation form left with its empty link.
ChessClub == [name |-> "Chess Club", description |-> "We play chess", linktree |-> ""]

\* The club objects sent to createClub.
CreateClubs ==
    {Small, With(Large, "linktree", Link100), ChessClub} \cup BadClubs \cup OptionClubs

\* The club objects sent to updateClub: the valid ones for every id, the
\* others for the first club, and one without an id.
UpdateClubs ==
    {With(c, "id", i) : c \in {Small, Large}, i \in Ids}
    \cup {With(c, "id", 1) : c \in BadClubs \cup OptionClubs}
    \cup {Small}

\* The inputs sent to deleteClub and getClub (the last one lacks the id).
IdInputs == {[id |-> i] : i \in Ids} \cup {<<>>}

(***************************************************************************)
(* The state machine                                                       *)
(***************************************************************************)
\* No call is being answered.
NoCall == [op |-> "none"]
NoRes == [none |-> TRUE]

\* No concurrent request is under way.
NoReqs == <<>>

\* No page is open in the browser.
NoForm ==
    [page |-> "none", session |-> NULL, clubId |-> 0, club |-> NULL,
     status |-> "idle", fetchStatus |-> "idle", fetched |-> FALSE,
     pushed |-> FALSE, answer |-> NoRes]
\* (answer: what the procedure called by the last submit gave, once taken)

\* The DAL module was evaluated once: globalThis.prisma holds the one
\* instance constructed.
Loaded == [prisma |-> 1, constructed |-> 1, used |-> {}, evals |-> 1]

Init ==
    /\ prisma = [user |-> UserRows, club |-> {}]
    /\ nextId = 1
    /\ call = NoCall
    /\ res = NoRes
    /\ before = {}
    /\ returned = <<>>
    /\ storeLog = <<>>
    /\ deleted = {}
    /\ reqs = NoReqs
    /\ applied = <<>>
    /\ form = NoForm
    /\ global = Loaded

\* A caller makes one call and waits for its answer: what was called, on
\* which club table, and what the procedure did.
Called(op, input, faulty, out) ==
    /\ call = NoCall
    /\ call' = [op |-> op, input |-> input, faulty |-> faulty]
    /\ before' = prisma.club
    /\ res' = out.res
    /\ prisma' = out.db
    /\ storeLog' = out.log
    /\ UNCHANGED <<reqs, applied, form, global>>

\* The clubs createClub returned and nothing has mutated since.
Forget(id) == [i \in DOMAIN returned \ {id} |-> returned[i]]
Remember(club) ==
    [i \in DOMAIN returned \cup {club.id} |-> IF i = club.id THEN club ELSE returned[i]]

\* Did the answer report success
Succeeded(r) == "success" \in DOMAIN r /\ r.success

\* trpc.createClub
createClub ==
    \E caller \in Callers, club \in CreateClubs :
        LET input == [accessToken |-> caller.accessToken, club |-> club]
            out == createClub_procedure(input, caller.faulty)
        IN
        /\ Called("createClub", input, caller.faulty, out)
        /\ nextId + out.ids <= MaxClubs + 1
        /\ nextId' = nextId + out.ids
        /\ returned' = IF Succeeded(out.res) THEN Remember(out.res.club) ELSE returned
        /\ UNCHANGED deleted

\* trpc.deleteClub
deleteClub ==
    \E caller \in Callers, idInput \in IdInputs :
        LET input == With(idInput, "accessToken", caller.accessToken)
            out == deleteClub_procedure(input, caller.faulty)
        IN
        /\ Called("deleteClub", input, caller.faulty, out)
        /\ returned' = IF Succeeded(out.res) THEN Forget(input.id) ELSE returned
        /\ deleted' = IF Succeeded(out.res) THEN deleted \cup {input.id} ELSE deleted
        /\ UNCHANGED nextId

\* trpc.updateClub
updateClub ==
    \E caller \in Callers, club \in UpdateClubs :
        LET input == [accessToken |-> caller.accessToken, club |-> club]
            out == updateClub_procedure(input, caller.faulty)
        IN
        /\ Called("updateClub", input, caller.faulty, out)
        /\ returned' = IF Succeeded(out.res) THEN Forget(input.club.id) ELSE returned
        /\ UNCHANGED <<nextId, deleted>>

\* trpc.getAllClubs
getAllClubs ==
    \E faulty \in SUBSET {"club"} :
        /\ Called("getAllClubs", <<>>, faulty, getAllClubs_procedure(faulty))
        /\ UNCHANGED <<nextId, returned, deleted>>

\* trpc.getClub
getClub ==
    \E input \in IdInputs, faulty \in SUBSET {"club"} :
        /\ Called("getClub", input, faulty, getClub_procedure(input, faulty))
        /\ UNCHANGED <<nextId, returned, deleted>>

\* The caller takes the answer (`await createClub(...)` and the like return).
Respond ==
    /\ call # NoCall
    /\ call' = NoCall
    /\ res' = NoRes
    /\ before' = {}
    /\ storeLog' = <<>>
    /\ UNCHANGED <<prisma, nextId, returned, deleted, reqs, applied, form, global>>

Next == createClub \/ deleteClub \/ updateClub \/ getAllClubs \/ getClub \/ Respond

Spec == Init /\ [][Next]_vars

(***************************************************************************)
(* updateClub requests in flight together                                  *)
(***************************************************************************)
\* The clubs stored when the requests arrive.
SeedClubs ==
    { [id |-> 1, name |-> "Chess Club", description |-> "We play chess",
       image |-> "/images/chess.png", linktree |-> Link1],
      [id |-> 2, name |-> "Go Club", description |-> "We play go",
       image |-> "/images/go.png", linktree |-> Link100] }

\* The inputs the requests carry: who sends them, which tables' store access
\* fails for them, and the club objects.
UpdCallers == {<<"tokA", {}>>, <<"tokA", {"club"}>>, <<"tokU", {}>>}
UpdClubs ==
    {With(c, "id", i) : c \in {Small, Large}, i \in {seed.id : seed \in SeedClubs}}
    \cup {With(With(Small, "image", ""), "id", 1)}

\* A request that has not arrived, and the requests.
Idle == [pc |-> "idle"]
Requests == 1..MaxRequests

InitUpd ==
    /\ prisma = [user |-> UserRows, club |-> SeedClubs]
    /\ nextId = 1
    /\ call = NoCall
    /\ res = NoRes
    /\ before = {}
    /\ returned = <<>>
    /\ storeLog = <<>>
    /\ deleted = {}
    /\ reqs = [r \in Requests |-> Idle]
    /\ applied = <<>>
    /\ form = NoForm
    /\ global = Loaded

\* What a step of a request leaves alone.
UpdFrame ==
    UNCHANGED <<nextId, call, res, before, returned, storeLog, deleted, form, global>>

\* A request arrives and its input is parsed; the resolver is entered and
\* awaits the user lookup.
UpdArrive(r) ==
    \E caller \in UpdCallers, club \in UpdClubs :
        LET input == [accessToken |-> caller[1], club |-> club] IN
        /\ reqs[r].pc = "idle"
        /\ updateClub_accepts(input)
        /\ reqs' = [reqs EXCEPT ![r] = [pc |-> "lookup",
                                        input |-> updateClub_parse(input),
                                        faulty |-> caller[2]]]
        /\ UNCHANGED <<prisma, applied>>
        /\ UpdFrame

\* The user lookup resolves: the resolver returns the refusal or goes on to
\* await the store write.
UpdLookup(r) ==
    /\ reqs[r].pc = "lookup"
    /\ LET gate == Authorize(reqs[r].input.accessToken, reqs[r].faulty) IN
       reqs' = [reqs EXCEPT ![r] =
                    IF gate.passed
                    THEN [pc |-> "write", input |-> reqs[r].input,
                          faulty |-> reqs[r].faulty]
                    ELSE [pc |-> "done", input |-> reqs[r].input,
                          faulty |-> reqs[r].faulty, res |-> Envelope(FALSE, NULL)]]
    /\ UNCHANGED <<prisma, applied>>
    /\ UpdFrame

\* The store write resolves and the resolver returns its envelope.
UpdWrite(r) ==
    /\ reqs[r].pc = "write"
    /\ LET out == updateClub_write(reqs[r].input, reqs[r].faulty) IN
       /\ prisma' = out.db
       /\ reqs' = [reqs EXCEPT ![r] = [pc |-> "done", input |-> reqs[r].input,
                                       faulty |-> reqs[r].faulty, res |-> out.res]]
       /\ applied' = IF out.res.success THEN Append(applied, r) ELSE applied
    /\ UpdFrame

NextUpd == \E r \in Requests : UpdArrive(r) \/ UpdLookup(r) \/ UpdWrite(r)

SpecUpd == InitUpd /\ [][NextUpd]_vars

(***************************************************************************)
(* deleteClub requests in flight together                                  *)
(***************************************************************************)
\* The inputs the delete requests carry: who sends them, which tables' store
\* access fails for them, and the identifier (a stored club's, or one that
\* names no club).
DelCallers == {<<"tokA", {}>>, <<"tokA", {"club"}>>, <<"tokU", {}>>}
DelIds == {seed.id : seed \in SeedClubs} \cup {Cardinality(SeedClubs) + 1}

\* A request arrives and its input is parsed; the resolver is entered and
\* awaits the user lookup.
DelArrive(r) ==
    \E caller \in DelCallers, id \in DelIds :
        LET input == [accessToken |-> caller[1], id |-> id] IN
        /\ reqs[r].pc = "idle"
        /\ deleteClub_accepts(input)
        /\ reqs' = [reqs EXCEPT ![r] = [pc |-> "lookup", input |-> input,
                                        faulty |-> caller[2]]]
        /\ UNCHANGED <<prisma, applied>>
        /\ UpdFrame

\* The user lookup resolves: the resolver returns the refusal or goes on to
\* await the store's delete.
DelLookup(r) ==
    /\ reqs[r].pc = "lookup"
    /\ LET gate == Authorize(reqs[r].input.accessToken, reqs[r].faulty) IN
       reqs' = [reqs EXCEPT ![r] =
                    IF gate.passed
                    THEN [pc |-> "write", input |-> reqs[r].input,
                          faulty |-> reqs[r].faulty]
                    ELSE [pc |-> "done", input |-> reqs[r].input,
                          faulty |-> reqs[r].faulty, res |-> Envelope(FALSE, NULL)]]
    /\ UNCHANGED <<prisma, applied>>
    /\ UpdFrame

\* The store's delete resolves (the store removes a row in one step) and the
\* resolver returns its envelope.
DelWrite(r) ==
    /\ reqs[r].pc = "write"
    /\ LET out == deleteClub_write(reqs[r].input, reqs[r].faulty) IN
       /\ prisma' = out.db
       /\ reqs' = [reqs EXCEPT ![r] = [pc |-> "done", input |-> reqs[r].input,
                                       faulty |-> reqs[r].faulty, res |-> out.res]]
       /\ applied' = IF out.res.success THEN Append(applied, r) ELSE applied
    /\ UpdFrame

NextDel == \E r \in Requests : DelArrive(r) \/ DelLookup(r) \/ DelWrite(r)

SpecDel == InitUpd /\ [][NextDel]_vars

(***************************************************************************)
(* Mutations in flight while the identity provider changes the user table  *)
(***************************************************************************)
\* The secret the identity provider hands the administrator on a rotation.
Rotated == "tokB"

\* The mutations sent: each procedure with one valid input, on the
\* administrator's secret (old or new) or a plain user's.
AuthTokens == {"tokA", "tokU", Rotated}
AuthCalls ==
    {[op |-> "createClub", input |-> [accessToken |-> t, club |-> Small]] : t \in AuthTokens}
    \cup {[op |-> "deleteClub", input |-> [accessToken |-> t, id |-> 1]] : t \in AuthTokens}
    \cup {[op |-> "updateClub",
           input |-> [accessToken |-> t, club |-> With(Large, "id", 2)]] : t \in AuthTokens}

\* The part of a mutation past its gate.
Write(op, input) ==
    CASE op = "createClub" -> createClub_write(input, {})
      [] op = "deleteClub" -> deleteClub_write(input, {})
      [] op = "updateClub" -> updateClub_write(input, {})

\* The stored clubs with the identifiers after theirs free for uuidv4().
InitAuth ==
    /\ prisma = [user |-> UserRows, club |-> SeedClubs]
    /\ nextId = Cardinality(SeedClubs) + 1
    /\ call = NoCall
    /\ res = NoRes
    /\ before = {}
    /\ returned = <<>>
    /\ storeLog = <<>>
    /\ deleted = {}
    /\ reqs = [r \in Requests |-> Idle]
    /\ applied = <<>>
    /\ form = NoForm
    /\ global = Loaded

AuthFrame == UNCHANGED <<call, res, before, returned, storeLog, deleted, form, global>>

\* A request arrives; the resolver is entered and awaits the user lookup.
AuthArrive(r) ==
    \E c \in AuthCalls :
        /\ reqs[r].pc = "idle"
        /\ reqs' = [reqs EXCEPT ![r] = [pc |-> "lookup", op |-> c.op, input |-> c.input]]
        /\ UNCHANGED <<prisma, nextId, applied>>
        /\ AuthFrame

\* The user lookup resolves against the user table as it is now: the
\* resolver returns the refusal or goes on to await the store write.
AuthLookup(r) ==
    /\ reqs[r].pc = "lookup"
    /\ LET gate == Authorize(reqs[r].input.accessToken, {}) IN
       reqs' = [reqs EXCEPT ![r] =
                    IF gate.passed
                    THEN [pc |-> "write", op |-> reqs[r].op, input |-> reqs[r].input]
                    ELSE [pc |-> "done", op |-> reqs[r].op, input |-> reqs[r].input,
                          res |-> Envelope(FALSE, NULL)]]
    /\ UNCHANGED <<prisma, nextId, applied>>
    /\ AuthFrame

\* The store write resolves, whatever the user table holds by now; a write
\* the store applied is recorded with whether the token resolved to an
\* administrator at that moment.
AuthWrite(r) ==
    /\ reqs[r].pc = "write"
    /\ LET out == Write(reqs[r].op, reqs[r].input) IN
       /\ nextId + out.ids <= MaxClubs + Cardinality(SeedClubs) + 1
       /\ prisma' = out.db
       /\ nextId' = nextId + out.ids
       /\ reqs' = [reqs EXCEPT ![r] = [pc |-> "done", op |-> reqs[r].op,
                                       input |-> reqs[r].input, res |-> out.res]]
       /\ applied' =
              IF out.res.success
              THEN Append(applied,
                          [req |-> r,
                           admin |-> Authorize(reqs[r].input.accessToken, {}).passed])
              ELSE applied
    /\ AuthFrame

\* The identity provider takes ADMIN away from the users holding it.
Revoke ==
    /\ \E user \in prisma.user : ADMIN \in user.permissions
    /\ prisma' = [prisma EXCEPT !.user =
                      {[user EXCEPT !.permissions = @ \ {ADMIN}] : user \in prisma.user}]
    /\ UNCHANGED <<nextId, reqs, applied>>
    /\ AuthFrame

\* The identity provider replaces the administrator's secret.
Rotate ==
    /\ \E user \in prisma.user : user.secret = "tokA"
    /\ prisma' = [prisma EXCEPT !.user =
                      {IF user.secret = "tokA" THEN [user EXCEPT !.secret = Rotated]
                       ELSE user : user \in prisma.user}]
    /\ UNCHANGED <<nextId, reqs, applied>>
    /\ AuthFrame

NextAuth ==
    \/ \E r \in Requests : AuthArrive(r) \/ AuthLookup(r) \/ AuthWrite(r)
    \/ Revoke
    \/ Rotate

SpecAuth == InitAuth /\ [][NextAuth]_vars

(***************************************************************************)
(* The data access layer called on its own                                 *)
(***************************************************************************)
\* Table names a DAL primitive may be handed (the last one does not exist),
\* and the sets of tables whose store access fails.
Tables == {"user", "club", "event"}
Faults == SUBSET {"user", "club"}

\* Options a DAL primitive may be handed for a table: the key of a `where`,
\* a row to create, a patch.
SampleKeys(table) == IF table = "user" THEN {"u1", "u9"} ELSE 1..MaxClubs
SampleRow(table, key) ==
    IF table = "user"
    THEN [id |-> key, email |-> "n@socis.ca", secret |-> "tokN",
          permissions |-> {"DEFAULT"}, password |-> "pwN"]
    ELSE [id |-> key, name |-> Name1, description |-> Desc1,
          image |-> Image1, linktree |-> Link1]
SamplePatch(table) ==
    IF table = "user" THEN [email |-> "x@socis.ca"] ELSE [name |-> Name50]

\* Emails an identity may be looked up by (the last one is nobody's).
Emails == {"a@socis.ca", "u@socis.ca", "x@socis.ca"}

\* A caller calls an operation of the DAL and gets what it returns, or the
\* exception it lets through.
DalCalled(op, table, faulty, r) ==
    /\ call = NoCall
    /\ call' = [op |-> op, table |-> table, faulty |-> faulty]
    /\ before' = prisma.club
    /\ res' = [thrown |-> r.thrown, ret |-> r.ret]
    /\ prisma' = r.db
    /\ storeLog' = r.log

\* What a call of the DAL leaves alone.
DalFrame == UNCHANGED <<nextId, returned, deleted, reqs, applied, form, global>>

Dal_findMany ==
    \E table \in Tables, faulty \in Faults :
        /\ DalCalled("findMany", table, faulty, findMany(table, <<>>, faulty))
        /\ DalFrame

Dal_findOne ==
    \E table \in Tables, faulty \in Faults : \E key \in SampleKeys(table) :
        /\ DalCalled("findOne", table, faulty,
                     findOne(table, [where |-> [id |-> key]], faulty))
        /\ DalFrame

Dal_create ==
    \E table \in Tables, faulty \in Faults : \E key \in SampleKeys(table) :
        /\ DalCalled("create", table, faulty,
                     create(table, [data |-> SampleRow(table, key)], faulty))
        /\ DalFrame

Dal_update ==
    \E table \in Tables, faulty \in Faults : \E key \in SampleKeys(table) :
        /\ DalCalled("update", table, faulty,
                     update(table, [where |-> [id |-> key], data |-> SamplePatch(table)],
                            faulty))
        /\ DalFrame

Dal_delete ==
    \E table \in Tables, faulty \in Faults : \E key \in SampleKeys(table) :
        /\ DalCalled("delete", table, faulty,
                     delete(table, [where |-> [id |-> key]], faulty))
        /\ DalFrame

Dal_getAllUsersSecure ==
    \E faulty \in Faults :
        /\ DalCalled("getAllUsersSecure", "user", faulty, getAllUsersSecure(faulty))
        /\ DalFrame

Dal_getUserByEmailNoPassword ==
    \E email \in Emails, faulty \in Faults :
        /\ DalCalled("getUserByEmailNoPassword", "user", faulty,
                     getUserByEmailNoPassword(email, faulty))
        /\ DalFrame

Dal_getUserBySecretNoPassword ==
    \E secret \in Tokens, faulty \in Faults :
        /\ DalCalled("getUserBySecretNoPassword", "user", faulty,
                     getUserBySecretNoPassword(secret, faulty))
        /\ DalFrame

\* The caller takes what the DAL returned.
DalReturn ==
    /\ call # NoCall
    /\ call' = NoCall
    /\ res' = NoRes
    /\ before' = {}
    /\ storeLog' = <<>>
    /\ UNCHANGED <<prisma, nextId, returned, deleted, reqs, applied, form, global>>

NextDal ==
    \/ Dal_findMany \/ Dal_findOne \/ Dal_create \/ Dal_update \/ Dal_delete
    \/ Dal_getAllUsersSecure \/ Dal_getUserByEmailNoPassword
    \/ Dal_getUserBySecretNoPassword
    \/ DalReturn

SpecDal == Init /\ [][NextDal]_vars

(***************************************************************************)
(* The module's evaluation and the store handle                            *)
(***************************************************************************)
\* globalThis before the module was ever evaluated: no handle (0), none
\* constructed, none used.
Unset == 0
Fresh == [prisma |-> Unset, constructed |-> 0, used |-> {}, evals |-> 0]

\* The module's last statement with the test forgotten: a new handle on
\* every evaluation.
Module_AlwaysConstructs(g) ==
    [g EXCEPT !.constructed = @ + 1, !.prisma = g.constructed + 1, !.evals = @ + 1]

\* The module's last statement: `if (!global.prisma) global.prisma = new
\* Prisma()`. The handles are numbered in the order of their construction.
Module(g) ==
    IF g.prisma = Unset
    THEN [g EXCEPT !.constructed = @ + 1, !.prisma = g.constructed + 1, !.evals = @ + 1]
    ELSE [g EXCEPT !.evals = @ + 1]

InitBoot ==
    /\ prisma = [user |-> UserRows, club |-> {}]
    /\ nextId = 1
    /\ call = NoCall
    /\ res = NoRes
    /\ before = {}
    /\ returned = <<>>
    /\ storeLog = <<>>
    /\ deleted = {}
    /\ reqs = NoReqs
    /\ applied = <<>>
    /\ form = NoForm
    /\ global = Fresh

\* The module is evaluated (once on import, again on every reload).
Evaluate ==
    /\ global.evals < MaxEvals
    /\ global' = Module(global)
    /\ UNCHANGED <<prisma, nextId, call, res, before, returned, storeLog, deleted,
                   reqs, applied, form>>

\* getTable reads globalThis.prisma at each call: the call goes through the
\* handle stored there now. The module was evaluated before any call.
Handle ==
    /\ global.evals >= 1
    /\ global' = [global EXCEPT !.used = @ \cup {global.prisma}]
    /\ UNCHANGED <<nextId, returned, deleted, reqs, applied, form>>

Boot_findMany ==
    \E table \in Tables :
        /\ DalCalled("findMany", table, {}, findMany(table, <<>>, {}))
        /\ Handle

Boot_create ==
    \E table \in Tables : \E key \in SampleKeys(table) :
        /\ DalCalled("create", table, {}, create(table, [data |-> SampleRow(table, key)], {}))
        /\ Handle

Boot_update ==
    \E table \in Tables : \E key \in SampleKeys(table) :
        /\ DalCalled("update", table, {},
                     update(table, [where |-> [id |-> key], data |-> SamplePatch(table)], {}))
        /\ Handle

Boot_delete ==
    \E table \in Tables : \E key \in SampleKeys(table) :
        /\ DalCalled("delete", table, {}, delete(table, [where |-> [id |-> key]], {}))
        /\ Handle

NextBoot ==
    \/ Evaluate
    \/ Boot_findMany \/ Boot_create \/ Boot_update \/ Boot_delete
    \/ DalReturn

SpecBoot == InitBoot /\ [][NextBoot]_vars

(***************************************************************************)
(* The pages of the browser: the two creation pages and the two edit pages *)
(***************************************************************************)
\* The creation page with .then/.catch, the creation page that awaits the
\* envelope, the edit page and the update page.
CreatePages == {"create1", "create2"}
EditPages == {"edit", "update"}
Pages == CreatePages \cup EditPages

\* What useSession() gives: no session, or the user signed in.
Sessions == {NULL} \cup {Without(user, "password") : user \in UserRows}

\* The club identifier in the url of an edit page (0: none).
UrlIds == {0} \cup Ids

\* What the user types into the inputs of a page.
Typed ==
    [name |-> {"", Name50},
     description |-> {"", Desc1},
     linktree |-> {"", Link1, Link101}]
Inputs(page) ==
    IF page = "edit" THEN {"name", "description"}
    ELSE {"name", "description", "linktree"}

\* A request that failed before the server answered it.
NetworkError == [error |-> "NETWORK"]

\* The promise of a procedure call rejected (it did not resolve with an
\* envelope).
Rejected(r) == "error" \in DOMAIN r

\* lib/utils/clubs isValidClubData
isValidClubData(club) ==
    IF club = NULL THEN FALSE
    ELSE IF \/ "name" \notin DOMAIN club
            \/ club.name = ""
            \/ Len(club.name) > config.club.max.name
            \/ Len(club.name) < config.club.min.name
    THEN FALSE
    ELSE IF \/ "description" \notin DOMAIN club
            \/ club.description = ""
            \/ Len(club.description) > config.club.max.description
            \/ Len(club.description) < config.club.min.description
    THEN FALSE
    ELSE TRUE

\* What a creation page renders.
CreateView(f) ==
    IF f.status = "loading" \/ f.club = NULL THEN "spinner"
    ELSE IF f.session = NULL THEN "invalid_session"
    ELSE IF ~hasPermissions(f.session, {ADMIN}) THEN "invalid_permissions"
    ELSE "form"

\* What an edit page renders.
EditView(f) ==
    IF f.clubId = 0 THEN "invalid_club"
    ELSE IF f.club = NULL \/ f.fetchStatus = "loading" \/ f.status = "loading"
    THEN "spinner"
    ELSE IF f.session = NULL THEN "invalid_session"
    ELSE IF f.fetchStatus = "error" THEN "fetch_error"
    ELSE IF ~hasPermissions(f.session, {ADMIN}) THEN "invalid_permissions"
    ELSE "form"

\* What the open page renders.
View(f) ==
    IF f.page \in CreatePages THEN CreateView(f)
    ELSE IF f.page \in EditPages THEN EditView(f)
    ELSE "none"

\* The message under the form.
Message(f) ==
    IF View(f) = "form" /\ f.status \in {"success", "error", "empty_fields"}
    THEN f.status
    ELSE "none"

InitForms ==
    /\ prisma = [user |-> UserRows, club |-> SeedClubs]
    /\ nextId = Cardinality(SeedClubs) + 1
    /\ call = NoCall
    /\ res = NoRes
    /\ before = {}
    /\ returned = <<>>
    /\ storeLog = <<>>
    /\ deleted = {}
    /\ reqs = NoReqs
    /\ applied = <<>>
    /\ form = NoForm
    /\ global = Loaded

\* What the browser and the server answering it leave alone.
FormFrame == UNCHANGED <<returned, deleted, reqs, applied, global>>

\* A request leaves the page.
Send(op, input) == [op |-> op, input |-> input, faulty |-> {}]

\* The user opens a creation page: useState gives the default club.
OpenCreate ==
    \E page \in CreatePages, session \in Sessions :
        /\ form = NoForm
        /\ form' = [NoForm EXCEPT
                        !.page = page,
                        !.session = session,
                        !.club = IF page = "create1" THEN config.club.default
                                 ELSE With(config.club.default, "id", 0)]
        /\ UNCHANGED <<prisma, nextId, call, res, before, storeLog>>
        /\ FormFrame

\* The user opens an edit page: no club yet, and a fetch is needed.
OpenEdit ==
    \E page \in EditPages, session \in Sessions, clubId \in UrlIds :
        /\ form = NoForm
        /\ form' = [NoForm EXCEPT
                        !.page = page,
                        !.session = session,
                        !.clubId = clubId,
                        !.fetchStatus = "need_fetch"]
        /\ UNCHANGED <<prisma, nextId, call, res, before, storeLog>>
        /\ FormFrame

\* useEffect of an edit page: fetch the club, once.
Fetch ==
    /\ form.page \in EditPages
    /\ form.clubId # 0
    /\ form.fetchStatus = "need_fetch"
    /\ call = NoCall
    /\ form' = [form EXCEPT !.fetchStatus = "loading", !.fetched = TRUE]
    /\ call' = Send("getClub", [id |-> form.clubId])
    /\ UNCHANGED <<prisma, nextId, res, before, storeLog>>
    /\ FormFrame

\* onChange of an input: setClub({ ...club, [input]: e.target.value })
Type ==
    \E input \in Inputs(form.page) : \E value \in Typed[input] :
        /\ View(form) = "form"
        /\ form' = [form EXCEPT !.club = With(form.club, input, value)]
        /\ UNCHANGED <<prisma, nextId, call, res, before, storeLog>>
        /\ FormFrame

\* onSubmit of a page, up to its await: the status becomes loading, then
\* empty_fields if the club is not valid, else the procedure is called.
Submit ==
    /\ View(form) = "form"
    /\ call = NoCall
    /\ form.page \in CreatePages => nextId <= MaxClubs + 1
    /\ IF ~isValidClubData(form.club)
       THEN /\ form' = [form EXCEPT !.status = "empty_fields"]
            /\ call' = call
       ELSE /\ form' = [form EXCEPT !.status = "loading", !.answer = NoRes]
            /\ call' = Send(IF form.page \in CreatePages THEN "createClub"
                            ELSE "updateClub",
                            [accessToken |-> form.session.secret, club |-> form.club])
    /\ UNCHANGED <<prisma, nextId, res, before, storeLog>>
    /\ FormFrame

\* The server runs the procedure the page called.
Serve ==
    \E faulty \in Faults :
        LET out == CASE call.op = "createClub" -> createClub_procedure(call.input, faulty)
                     [] call.op = "updateClub" -> updateClub_procedure(call.input, faulty)
                     [] call.op = "getClub" -> getClub_procedure(call.input, faulty)
        IN
        /\ call # NoCall
        /\ res = NoRes
        /\ call' = [call EXCEPT !.faulty = faulty]
        /\ res' = out.res
        /\ before' = prisma.club
        /\ prisma' = out.db
        /\ nextId' = nextId + out.ids
        /\ storeLog' = out.log
        /\ UNCHANGED form
        /\ FormFrame

\* The request fails on its way: the promise rejects.
Drop ==
    /\ call # NoCall
    /\ res = NoRes
    /\ res' = NetworkError
    /\ UNCHANGED <<prisma, nextId, call, before, storeLog, form>>
    /\ FormFrame

\* getClub(...).then(...).catch(...) of an edit page
Fetched(f, r) ==
    IF Rejected(r) THEN [f EXCEPT !.fetchStatus = "error"]
    ELSE IF r.club = NULL THEN [f EXCEPT !.fetchStatus = "error"]
    ELSE [f EXCEPT !.club = r.club, !.fetchStatus = "success"]

\* createClub(...).then(...).catch(...) of the first creation page, and
\* updateClub(...).then(...).catch(...) of the update page
ThenCatch(f, r) ==
    IF Rejected(r) THEN [f EXCEPT !.status = "error"]
    ELSE [f EXCEPT !.status = "success", !.pushed = TRUE]

\* `const res = await createClub(...)` of the second creation page and what
\* follows it; a rejection ends onSubmit there.
AwaitCreate(f, r) ==
    IF Rejected(r) THEN f
    ELSE IF r.success THEN [f EXCEPT !.status = "success", !.pushed = TRUE]
    ELSE [f EXCEPT !.status = "error"]

\* `const res = await updateClub(...)` of the edit page and what follows it.
AwaitUpdate(f, r) ==
    IF Rejected(r) THEN f
    ELSE IF r.success THEN [f EXCEPT !.status = "success", !.pushed = TRUE]
    ELSE f

\* The page takes the answer of its call and onSubmit (or the effect) goes on.
Receive ==
    /\ call # NoCall
    /\ res # NoRes
    /\ LET f == [form EXCEPT !.answer = res] IN
       form' = CASE call.op = "getClub" -> Fetched(form, res)
                 [] form.page \in {"create1", "update"} -> ThenCatch(f, res)
                 [] form.page = "create2" -> AwaitCreate(f, res)
                 [] form.page = "edit" -> AwaitUpdate(f, res)
    /\ call' = NoCall
    /\ res' = NoRes
    /\ before' = {}
    /\ storeLog' = <<>>
    /\ UNCHANGED <<prisma, nextId>>
    /\ FormFrame

\* The user leaves the page (router.push("/") or the Cancel link).
Leave ==
    /\ form # NoForm
    /\ call = NoCall
    /\ form' = NoForm
    /\ UNCHANGED <<prisma, nextId, call, res, before, storeLog>>
    /\ FormFrame

NextForms ==
    \/ OpenCreate \/ OpenEdit \/ Fetch \/ Type \/ Submit
    \/ Serve \/ Drop \/ Receive \/ Leave

SpecForms == InitForms /\ [][NextForms]_vars

\* The server answers every request, or the request fails, and the page takes
\* every answer.
FairForms == SpecForms /\ WF_vars(Serve \/ Drop) /\ WF_vars(Receive)

(***************************************************************************)
(* Properties                                                              *)
(***************************************************************************)
\* The procedures that write the club table.
Mutations == {"createClub", "updateClub", "deleteClub"}

\* The refusal envelope.
Refusal == Envelope(FALSE, NULL)

\* The token is the secret of an identity that holds ADMIN.
IsAdminToken(token) ==
    \E user \in prisma.user : user.secret = token /\ ADMIN \in user.permissions

\* The input of the call being answered passes its procedure's schema.
CallAccepted ==
    CASE call.op = "createClub" -> createClub_accepts(call.input)
      [] call.op = "updateClub" -> updateClub_accepts(call.input)
      [] call.op = "deleteClub" -> deleteClub_accepts(call.input)
      [] call.op = "getClub" -> getClub_accepts(call.input)
      [] OTHER -> TRUE

\* The identifiers of a set of clubs, and the club of a set with an identifier.
IdsOf(clubs) == {c.id : c \in clubs}
ClubAt(clubs, id) == CHOOSE c \in clubs : c.id = id

\* The call being answered is a mutation whose token is no admin's.
Unauthorized ==
    call.op \in Mutations /\ ~IsAdminToken(call.input.accessToken)

UnauthorizedWrite == Unauthorized /\ call.op \in {"createClub", "updateClub"}

\* The payloads the caller could have sent instead, whether such a payload
\* passes the schema, and the answer the caller would get for it right now.
OtherPayloads == IF call.op = "createClub" THEN CreateClubs ELSE UpdateClubs
OtherInput(club) == [accessToken |-> call.input.accessToken, club |-> club]
OtherAccepted(club) ==
    IF call.op = "createClub" THEN createClub_accepts(OtherInput(club))
    ELSE updateClub_accepts(OtherInput(club))
OtherAnswer(club) ==
    IF call.op = "createClub" THEN createClub_procedure(OtherInput(club), call.faulty)
    ELSE updateClub_procedure(OtherInput(club), call.faulty)

OutOfBounds(club) ==
    \/ "name" \notin DOMAIN club
    \/ Len(club.name) < config.club.min.name
    \/ Len(club.name) > config.club.max.name
    \/ "description" \notin DOMAIN club
    \/ Len(club.description) < config.club.min.description
    \/ Len(club.description) > config.club.max.description

\* The call being answered is a createClub or updateClub with such a payload.
InvalidPayload ==
    call.op \in {"createClub", "updateClub"} /\ OutOfBounds(call.input.club)

C4_StoredClubsInBounds ==
    \A c \in prisma.club :
        /\ Len(c.name) >= config.club.min.name
        /\ Len(c.name) <= config.club.max.name
        /\ Len(c.description) >= config.club.min.description
        /\ Len(c.description) <= config.club.max.description
        /\ \/ c.linktree = config.club.default.linktree
           \/ /\ Len(c.linktree) >= config.club.min.linktree
              /\ Len(c.linktree) <= config.club.max.linktree

\* A club at the upper bounds was stored next to one that an update wrote.
C4_Witness ==
    /\ call.op = "updateClub"
    /\ Succeeded(res)
    /\ prisma.club # before
    /\ \E c \in prisma.club :
           /\ Len(c.name) = config.club.max.name
           /\ Len(c.description) = config.club.max.description
           /\ Len(c.linktree) = config.club.max.linktree

\* C5: in every envelope of createClub, updateClub, deleteClub and getClub,
\* success is false exactly when club is null.
C5_SuccessAndClubTogether ==
    (call.op \in Mutations \cup {"getClub"} /\ "success" \in DOMAIN res) =>
        /\ "club" \in DOMAIN res
        /\ (res.success = FALSE) <=> (res.club = NULL)

\* A getClub of an identifier that is not stored answered the refusal, next
\* to a stored club.
C5_Witness ==
    /\ call.op = "getClub"
    /\ CallAccepted
    /\ call.faulty = {}
    /\ call.input.id \notin IdsOf(prisma.club)
    /\ prisma.club # {}
    /\ res = Refusal

\* The value the caller supplied for an optional key, or the default when the
\* key is missing.
Supplied(club, key, default) == IF key \in DOMAIN club THEN club[key] ELSE default

\* The same, with an empty string counted as missing.
SuppliedNonEmpty(club, key, default) ==
    IF key \in DOMAIN club /\ club[key] # "" THEN club[key] ELSE default

\* The call being answered is an admin's createClub with a payload that
\* passes the schema, on a store that serves both tables.
AdminCreate ==
    /\ call.op = "createClub"
    /\ IsAdminToken(call.input.accessToken)
    /\ CallAccepted
    /\ call.faulty = {}

\* C6 as stated: an admin's createClub with a valid payload that the store
\* accepts adds exactly one club, under an identifier no stored club had, with
\* the supplied name and description, the supplied image or the placeholder
\* when missing, the supplied linktree or "" when missing; the clubs stored
\* before are unchanged and the envelope is {success:true, club:<that club>}.
C6_CreateAddsSuppliedClub ==
    AdminCreate =>
        \E c \in prisma.club :
            /\ c.id \notin IdsOf(before)
            /\ prisma.club = before \cup {c}
            /\ c.name = call.input.club.name
            /\ c.description = call.input.club.description
            /\ c.image = Supplied(call.input.club, "image", config.club.default.image)
            /\ c.linktree = Supplied(call.input.club, "linktree", config.club.default.linktree)
            /\ res = Envelope(TRUE, c)

\* C6, amended: the same, except that the image is the supplied image when
\* that is a non-empty string and the placeholder when it is missing or empty.
C6_CreateAddsClubWithDefaults ==
    AdminCreate =>
        \E c \in prisma.club :
            /\ c.id \notin IdsOf(before)
            /\ prisma.club = before \cup {c}
            /\ c.name = call.input.club.name
            /\ c.description = call.input.club.description
            /\ c.image = SuppliedNonEmpty(call.input.club, "image", config.club.default.image)
            /\ c.linktree = Supplied(call.input.club, "linktree", config.club.default.linktree)
            /\ res = Envelope(TRUE, c)

\* An admin created a club without an image next to a stored club.
C6_Witness ==
    /\ AdminCreate
    /\ "image" \notin DOMAIN call.input.club
    /\ before # {}
    /\ Succeeded(res)
    /\ res.club.image = config.club.default.image

\* The call being answered is a getClub of a club that createClub returned
\* and nothing has mutated since.
ReadBack ==
    /\ call.op = "getClub"
    /\ CallAccepted
    /\ call.input.id \in DOMAIN returned

\* The club of the answer has the fields of the club createClub returned.
SameFields(a, b) ==
    /\ a.name = b.name
    /\ a.description = b.description
    /\ a.linktree = b.linktree
    /\ a.image = b.image

\* C7 as stated: after a successful createClub, getClub on the returned
\* identifier, with no mutation of that club in between, returns success:true
\* and a club with the name, description, linktree and image createClub
\* returned.
C7_RoundTrip ==
    ReadBack => Succeeded(res) /\ SameFields(res.club, returned[call.input.id])

\* C7, amended: the same, provided the store serves the read (no store fault
\* during getClub).
C7_RoundTripOnHealthyStore ==
    (ReadBack /\ call.faulty = {}) =>
        Succeeded(res) /\ SameFields(res.club, returned[call.input.id])

\* A club was read back while another club was stored too.
C7_Witness ==
    /\ ReadBack
    /\ call.faulty = {}
    /\ Succeeded(res)
    /\ Cardinality(prisma.club) = 2

\* C8: an admin's createClub with a valid name and description and the
\* linktree "" succeeds, with the linktree "" and the placeholder image.
C8_EmptyLinktreeCreates ==
    ( /\ call.op = "createClub"
      /\ IsAdminToken(call.input.accessToken)
      /\ call.faulty = {}
      /\ ~OutOfBounds(call.input.club)
      /\ "linktree" \in DOMAIN call.input.club
      /\ call.input.club.linktree = ""
      /\ "image" \notin DOMAIN call.input.club )
    => /\ Succeeded(res)
       /\ res.club.linktree = ""
       /\ res.club.image = config.club.default.image

\* The call being answered is an admin's updateClub, with a payload that
\* passes the schema, of a club that was stored.
AdminUpdate ==
    /\ call.op = "updateClub"
    /\ IsAdminToken(call.input.accessToken)
    /\ CallAccepted
    /\ call.input.club.id \in IdsOf(before)

\* The club with the identifier of the call now has the given image and the
\* supplied name and description, the other clubs are as before, and the
\* envelope carries the club.
Patched(image) ==
    LET id == call.input.club.id IN
    /\ id \in IdsOf(prisma.club)
    /\ LET new == ClubAt(prisma.club, id)
           old == ClubAt(before, id)
       IN /\ new.name = call.input.club.name
          /\ new.description = call.input.club.description
          /\ new.image = image
          /\ prisma.club \ {new} = before \ {old}
          /\ Cardinality(prisma.club) = Cardinality(before)
          /\ res = Envelope(TRUE, new)

\* C9 as stated: an admin's updateClub with a valid payload and the
\* identifier of a stored club replaces the name and description, sets the
\* image to the supplied one or to the placeholder when omitted, keeps the
\* identifier, leaves every other club unchanged and returns {success:true,
\* club:<the patched club>}.
C9_UpdatePatches ==
    AdminUpdate =>
        Patched(Supplied(call.input.club, "image", config.club.default.image))

\* C9, amended: the same when the store serves the identity lookup and the
\* update (no store fault), the image being the supplied one when that is a
\* non-empty string and the placeholder when it is omitted or empty.
C9_UpdatePatchesOnHealthyStore ==
    (AdminUpdate /\ call.faulty = {}) =>
        Patched(SuppliedNonEmpty(call.input.club, "image", config.club.default.image))

\* An admin's update changed one of two stored clubs and reset its image.
C9_Witness ==
    /\ AdminUpdate
    /\ call.faulty = {}
    /\ "image" \notin DOMAIN call.input.club
    /\ Cardinality(before) = 2
    /\ prisma.club # before
    /\ Succeeded(res)
    /\ res.club.image = config.club.default.image

\* C10: updateClub with a linktree whose length is outside 1..100 is refused
\* and mutates nothing.
C10_UpdateRejectsBadLinktree ==
    ( /\ call.op = "updateClub"
      /\ "linktree" \in DOMAIN call.input.club
      /\ \/ Len(call.input.club.linktree) < config.club.min.linktree
         \/ Len(call.input.club.linktree) > config.club.max.linktree )
    => ~Succeeded(res) /\ prisma.club = before

\* The identifier a deleteClub or updateClub call names.
TargetId ==
    IF call.op = "deleteClub" THEN call.input.id ELSE call.input.club.id

\* The call being answered is an admin's deleteClub or updateClub, with an
\* input that passes the schema, of an identifier that is not stored.
AdminOnMissing ==
    /\ call.op \in {"deleteClub", "updateClub"}
    /\ IsAdminToken(call.input.accessToken)
    /\ CallAccepted
    /\ TargetId \notin IdsOf(before)

C12_DeletionIsPhysical ==
    /\ deleted \cap IdsOf(prisma.club) = {}
    /\ (call.op = "getClub" /\ CallAccepted /\ call.input.id \in deleted) =>
           res = Refusal
    /\ call.op = "getAllClubs" => \A c \in res.clubs : c.id \notin deleted
    /\ (call.op = "deleteClub" /\ Succeeded(res)) =>
           /\ res.club \in before
           /\ res.club.id = call.input.id
           /\ prisma.club = before \ {res.club}

\* A getClub of a deleted club was refused after a later club was created.
C12_Witness ==
    /\ call.op = "getClub"
    /\ CallAccepted
    /\ call.faulty = {}
    /\ call.input.id \in deleted
    /\ \E c \in prisma.club : c.id > call.input.id
    /\ res = Refusal

\* The call being answered is a read.
Read == call.op \in {"getClub", "getAllClubs"}

\* The tables the call being answered issued store calls to.
TablesTouched == {storeLog[i].table : i \in DOMAIN storeLog}

\* A read takes no token, looks no identity up and leaves the club table.
PublicRead ==
    /\ "accessToken" \notin DOMAIN call.input
    /\ "user" \notin TablesTouched
    /\ prisma = [user |-> prisma.user, club |-> before]

\* C13 as stated: getClub and getAllClubs take no token, look no identity up
\* and never modify the club table, and getClub answers {success:true, club}
\* exactly when a club with that identifier is stored and {success:false,
\* club:null} otherwise.
C13_ReadsArePublic ==
    Read =>
        /\ PublicRead
        /\ (call.op = "getClub" /\ CallAccepted) =>
               IF call.input.id \in IdsOf(prisma.club)
               THEN res = Envelope(TRUE, ClubAt(prisma.club, call.input.id))
               ELSE res = Refusal

\* C13, amended: the same, getClub answering {success:true, club} exactly
\* when a club with that identifier is stored and the store serves the read,
\* and {success:false, club:null} otherwise.
C13_ReadsArePublicOnHealthyStore ==
    Read =>
        /\ PublicRead
        /\ (call.op = "getClub" /\ CallAccepted) =>
               IF call.input.id \in IdsOf(prisma.club) /\ call.faulty = {}
               THEN res = Envelope(TRUE, ClubAt(prisma.club, call.input.id))
               ELSE res = Refusal

\* A getClub found one of two stored clubs.
C13_Witness ==
    /\ call.op = "getClub"
    /\ CallAccepted
    /\ Succeeded(res)
    /\ Cardinality(prisma.club) = 2
    /\ storeLog = StoreCall("club", "findFirst")

\* C14: a getAllClubs on a healthy store returns exactly the clubs stored,
\* and a second getAllClubs, with no mutation in between, returns the same.
C14_ListIsStable ==
    (call.op = "getAllClubs" /\ call.faulty = {}) =>
        /\ res.success
        /\ res.clubs = prisma.club
        /\ getAllClubs_procedure({}).res = res
        /\ getAllClubs_procedure({}).db = prisma

\* A getAllClubs gave the two clubs stored, and so would the next one.
C14_Witness ==
    /\ call.op = "getAllClubs"
    /\ call.faulty = {}
    /\ Cardinality(res.clubs) = 2
    /\ getAllClubs_procedure({}).res.clubs = res.clubs

\* The tokens that are no admin's: a plain user's and nobody's.
OtherTokens == {t \in Tokens : ~IsAdminToken(t)}

\* The answer the procedure of the call would give for another token.
AnswerFor(token) ==
    LET input == With(call.input, "accessToken", token) IN
    CASE call.op = "createClub" -> createClub_procedure(input, call.faulty)
      [] call.op = "updateClub" -> updateClub_procedure(input, call.faulty)
      [] call.op = "deleteClub" -> deleteClub_procedure(input, call.faulty)

\* C15: a mutation answers a token that resolves to no identity and a token
\* that resolves to an identity without ADMIN alike: for the same payload and
\* the same store, the same response and the same tables afterwards.
C15_BadTokenLikeNoPermission ==
    Unauthorized =>
        \A t \in OtherTokens :
            /\ AnswerFor(t).res = res
            /\ AnswerFor(t).db = prisma

\* Nobody's token was refused the deleteClub of a stored club, and a plain
\* user's token is another token that is no admin's.
C15_Witness ==
    /\ call.op = "deleteClub"
    /\ CallAccepted
    /\ call.input.accessToken = "tokX"
    /\ call.input.id \in IdsOf(prisma.club)
    /\ \E u \in prisma.user : u.secret \in OtherTokens
    /\ res = Refusal

\* The DAL primitives.
Primitives == {"findMany", "findOne", "create", "update", "delete"}

\* The table of the DAL call being answered does not exist, or its store
\* access failed.
TableUnusable == call.table \notin DOMAIN prisma \/ call.table \in call.faulty

\* C16: findMany, findOne, create, update and delete never raise, for any
\* table name (one that does not exist included) and any store fault; on
\* such a table or fault findMany returns no rows and the other four null.
C16_PrimitivesAreTotal ==
    call.op \in Primitives =>
        /\ ~res.thrown
        /\ TableUnusable =>
               /\ res.ret = IF call.op = "findMany" THEN {} ELSE NULL
               /\ prisma.club = before

\* An update of a stored club met a failing club table and returned null,
\* and so did a delete in a table that does not exist.
C16_Witness ==
    /\ call.op = "update"
    /\ call.table = "club"
    /\ "club" \in call.faulty
    /\ prisma.club # {}
    /\ res.ret = NULL
    /\ delete("event", [where |-> [id |-> 1]], {}).ret = NULL

\* A store call of the call being answered hit a failing table.
FaultHit == \E i \in DOMAIN storeLog : storeLog[i].table \in call.faulty

\* C17: a procedure one of whose store calls fails answers as for not
\* found and does not raise: createClub, updateClub, deleteClub and getClub
\* return {success:false, club:null}, getAllClubs returns success:true with
\* no clubs.
C17_FaultReportedAsNotFound ==
    FaultHit =>
        /\ res = IF call.op = "getAllClubs"
                 THEN [success |-> TRUE, clubs |-> {}]
                 ELSE Refusal
        /\ prisma.club = before

\* A getAllClubs met a failing club table while clubs were stored.
C17_Witness ==
    /\ call.op = "getAllClubs"
    /\ FaultHit
    /\ prisma.club # {}
    /\ res = [success |-> TRUE, clubs |-> {}]

\* The store calls of the call being answered, per table.
UserCalls == {i \in DOMAIN storeLog : storeLog[i].table = "user"}
ClubCalls == {i \in DOMAIN storeLog : storeLog[i].table = "club"}

\* The gate of the mutations turns the call being answered away.
RefusedAtGate ==
    /\ call.op \in Mutations
    /\ ~IsAdminToken(call.input.accessToken) \/ "user" \in call.faulty

\* C18: a procedure call issues each store operation at most once, a failed
\* one included: a mutation at most one identity lookup and at most one club
\* write, and no club write when it is refused; getClub and getAllClubs one
\* read.
C18_NoRetries ==
    /\ call.op \in Mutations =>
           /\ Cardinality(UserCalls) <= 1
           /\ Cardinality(ClubCalls) <= 1
           /\ RefusedAtGate => ClubCalls = {}
    /\ call.op = "getClub" /\ CallAccepted =>
           storeLog = StoreCall("club", "findFirst")
    /\ call.op = "getAllClubs" =>
           storeLog = StoreCall("club", "findMany")

\* An admin's createClub met a failing club table: one lookup, one write.
C18_Witness ==
    /\ call.op = "createClub"
    /\ CallAccepted
    /\ IsAdminToken(call.input.accessToken)
    /\ call.faulty = {"club"}
    /\ storeLog = StoreCall("user", "findFirst") \o StoreCall("club", "create")
    /\ res = Refusal

\* A looked-up identity, if any, lacks the columns.
Lacks(user, columns) == user = NULL \/ DOMAIN user \cap columns = {}

\* C20: getUserByEmailNoPassword, getUserBySecretNoPassword and
\* getAllUsersSecure never return the password column, and getAllUsersSecure
\* never returns the secret column either.
C20_PasswordNeverLeaves ==
    /\ call.op \in {"getUserByEmailNoPassword", "getUserBySecretNoPassword"} =>
           Lacks(res.ret, {"password"})
    /\ call.op = "getAllUsersSecure" =>
           \A user \in res.ret : Lacks(user, {"password", "secret"})

\* getUserBySecretNoPassword gave an identity, with its secret and without
\* the password the stored row carries.
C20_Witness ==
    /\ call.op = "getUserBySecretNoPassword"
    /\ res.ret # NULL
    /\ "secret" \in DOMAIN res.ret
    /\ "password" \notin DOMAIN res.ret
    /\ \E user \in prisma.user :
           user.id = res.ret.id /\ {"password", "secret"} \subseteq DOMAIN user

\* The positions in `applied` of the writes to the club with an identifier,
\* and the club object of the request whose write to it was applied last.
WritesTo(id) == {k \in DOMAIN applied : reqs[applied[k]].input.club.id = id}
LastWrite(id) ==
    LET last == CHOOSE k \in WritesTo(id) : \A j \in WritesTo(id) : j <= k
    IN reqs[applied[last]].input.club

\* The club of the seed with an identifier.
Seeded(id) == ClubAt(SeedClubs, id)

\* C19: under every interleaving of updateClub requests on the same club,
\* the club's name, description and image are all those of the one request
\* whose store write was applied last, never a mix of several requests'
\* fields, and its id (and what no update touches) stays as it was.
C19_LastWriteWins ==
    /\ IdsOf(prisma.club) = IdsOf(SeedClubs)
    /\ \A club \in prisma.club :
           IF WritesTo(club.id) = {} THEN club = Seeded(club.id)
           ELSE LET last == LastWrite(club.id) IN
                /\ club.name = last.name
                /\ club.description = last.description
                /\ club.image = OrElse(last, "image", config.club.default.image)
                /\ club.linktree = Seeded(club.id).linktree

\* Two authorized updates of the same club, different in every field, were
\* both applied, the second request's write first.
C19_Witness ==
    /\ Len(applied) >= 2
    /\ applied[1] = 2
    /\ applied[2] = 1
    /\ LET first == reqs[2].input.club
           last == reqs[1].input.club
       IN /\ first.id = last.id
          /\ first.name # last.name
          /\ first.description # last.description
          /\ "image" \in DOMAIN first
          /\ "image" \notin DOMAIN last
          /\ ClubAt(prisma.club, last.id).name = last.name
          /\ ClubAt(prisma.club, last.id).image = config.club.default.image

\* The identity lookup of the mutation being answered met a failing user
\* table.
LookupFailed ==
    /\ call.op \in Mutations
    /\ \E i \in UserCalls : storeLog[i].table \in call.faulty

\* C27: a mutation whose identity lookup meets a store fault refuses with
\* {success:false, club:null} and issues no club write, an admin's token
\* included.
C27_FailsClosed ==
    LookupFailed =>
        /\ res = Refusal
        /\ ClubCalls = {}
        /\ prisma.club = before

\* An admin's deleteClub of a stored club was refused because the user
\* table failed.
C27_Witness ==
    /\ LookupFailed
    /\ call.op = "deleteClub"
    /\ IsAdminToken(call.input.accessToken)
    /\ call.input.id \in IdsOf(prisma.club)
    /\ res = Refusal

\* The input a creation page would send for its club.
FormInput == [accessToken |-> form.session.secret, club |-> form.club]

\* C21: for every club of a creation page, isValidClubData is true exactly
\* when the createClub input schema accepts the club (name, description and
\* linktree bounds), so a createClub the page sends is never turned away by
\* the schema.
C21_ClientValidityIsServerValidity ==
    /\ (form.page \in CreatePages /\ form.club # NULL /\ form.session # NULL) =>
           (isValidClubData(form.club) <=> createClub_accepts(FormInput))
    /\ (form.page \in CreatePages /\ call.op = "createClub") => res # BAD_REQUEST

\* C22: after the update page's updateClub answered success:true, a getClub
\* of the club gives the linktree of the form.
C22_UpdateFormSetsLinktree ==
    (form.page = "update" /\ form.status = "success" /\ Succeeded(form.answer)) =>
        LET later == getClub_procedure([id |-> form.clubId], {}).res IN
        /\ Succeeded(later)
        /\ later.club.linktree = form.club.linktree

\* C23: a creation or update page has the success status, and redirects to
\* "/", only when the envelope of its call has success:true; when the
\* envelope is {success:false, club:null} the status is the error status and
\* the error message is shown.
C23_SuccessOnlyOnSuccessEnvelope ==
    form.page \in {"create1", "create2", "update"} =>
        /\ (form.status = "success" \/ form.pushed) => Succeeded(form.answer)
        /\ form.answer = Refusal =>
               form.status = "error" /\ Message(form) = "error"

\* C24: on the edit page, once updateClub has completed with an envelope the
\* status leaves loading: it becomes success or error.
C24_EditLeavesLoading ==
    (form.page = "edit" /\ form.status = "loading" /\ call.op = "updateClub"
        /\ res # NoRes /\ ~Rejected(res))
    ~> (form.status \in {"success", "error"})

\* C25: on the edit page a failed fetch shows a signed-in user the fetch
\* error message, not the spinner, and the fetch status does not go back to
\* need_fetch once the fetch has started.
C25_FetchFailureShown ==
    form.page = "edit" =>
        /\ (form.fetchStatus = "error" /\ form.session # NULL) =>
               View(form) = "fetch_error"
        /\ form.fetchStatus = "need_fetch" => ~form.fetched

\* C26: on a creation page every submit leaves the loading status, for
\* success, error or empty_fields, also when createClub rejects.
C26_CreateLeavesLoading ==
    (form.page \in CreatePages /\ form.status = "loading")
    ~> (form.status \in {"success", "error", "empty_fields"})


\* The finished requests that named a club identifier, those of them an
\* administrator sent, and those of them that met no store fault.
DoneOn(id) == {r \in Requests : reqs[r].pc = "done" /\ reqs[r].input.id = id}
AuthorizedOn(id) == {r \in DoneOn(id) : IsAdminToken(reqs[r].input.accessToken)}
HealthyOn(id) == {r \in AuthorizedOn(id) : reqs[r].faulty = {}}
DeletedBy(id) == {r \in DoneOn(id) : reqs[r].res.success}

\* What holds of the deletes of one stored club under every interleaving:
\* at most one request succeeded, it answered with the club as it was
\* stored, every other finished request got the refusal, and the store
\* lacks exactly the clubs some request deleted.
DeletesOnce(id) ==
    /\ Cardinality(DeletedBy(id)) <= 1
    /\ \A r \in DeletedBy(id) : reqs[r].res = Envelope(TRUE, Seeded(id))
    /\ \A r \in DoneOn(id) \ DeletedBy(id) : reqs[r].res = Refusal
    /\ Cardinality({k \in DOMAIN applied : reqs[applied[k]].input.id = id}) =
           Cardinality(DeletedBy(id))
    /\ (Seeded(id) \in prisma.club) = (DeletedBy(id) = {})

\* C28 (as stated): once two authorized deleteClub calls on the same stored
\* id have finished, whatever their interleaving, exactly one of them got
\* {success: true, club: <the deleted club>} and the other the refusal, the
\* club is removed once and no other club is affected.
C28_ExactlyOneDeletes ==
    \A id \in IdsOf(SeedClubs) :
        /\ DeletesOnce(id)
        /\ Cardinality(AuthorizedOn(id)) >= 2 => Cardinality(DeletedBy(id)) = 1

\* C28 (amended): the same, for authorized calls whose store access does not
\* fail; a call whose store access fails gets the refusal and deletes nothing.
C28_ExactlyOneDeletesOnHealthyStore ==
    \A id \in IdsOf(SeedClubs) :
        /\ DeletesOnce(id)
        /\ HealthyOn(id) # {} => Cardinality(DeletedBy(id)) = 1
        /\ \A r \in DeletedBy(id) : r \in HealthyOn(id)

\* Two administrators' deletes of club 1 were in flight together on a healthy
\* store; the second request's delete was applied first and the first
\* request got the refusal, while club 2 is still stored.
C28_Witness ==
    /\ applied = <<2>>
    /\ HealthyOn(1) = {1, 2}
    /\ reqs[2].res = Envelope(TRUE, Seeded(1))
    /\ reqs[1].res = Refusal
    /\ prisma.club = SeedClubs \ {Seeded(1)}


\* C29: a club write is applied only if the caller's token resolves to an
\* identity holding ADMIN at the moment the write is applied, whatever the
\* identity provider did to the user table between the call's lookup and
\* its write.
C29_WriteOnlyWhileAdmin ==
    \A k \in DOMAIN applied : applied[k].admin


\* C30: however many times the DAL module is evaluated, a Prisma instance
\* is constructed only when globalThis.prisma is unset: at most one handle
\* is ever constructed, it stays in globalThis.prisma from the first
\* evaluation on, and every DAL call went through that handle.
C30_LazySingleton ==
    /\ global.constructed <= 1
    /\ global.evals >= 1 => global.prisma = 1 /\ global.constructed = 1
    /\ global.evals = 0 => global.prisma = Unset /\ global.used = {}
    /\ global.used \subseteq {global.prisma}

\* The module was evaluated again after a DAL call had gone through the
\* handle and changed the store, and a later call went through the handle.
C30_Witness ==
    /\ global.evals >= 2
    /\ global.used = {1}
    /\ prisma.club # {}
    /\ call # NoCall

====
